---- MODULE Spec2Model ----
(***************************************************************************)
(* Model of the MCP tool server in src/src/tools/mcp: the eight tool       *)
(* handlers of mcp_tools.py, the gateway search_google, the query          *)
(* normalizer and envelope builders of utils/google_finance_utils.py and   *)
(* the flight parser of utils/google_flights_utils.py.                     *)
(*                                                                         *)
(* Python values are tagged records: None, str, int, bool, dict, list.     *)
(* A str is a sequence of symbols.  Text that some operation of the        *)
(* program inspects (queries, airport codes, travel classes, passenger     *)
(* counts, timestamps) is spelled one character per symbol; text that is   *)
(* only carried around (engine tags, message templates, dates) is kept as  *)
(* one symbol.                                                             *)
(***************************************************************************)
EXTENDS Integers, Sequences, FiniteSets, TLC

VARIABLES
    environ,       \* os.environ as read by os.getenv: key -> None or str
    SERP_API_KEY,  \* the module global set at import time (mcp_tools.py:16)
    call,          \* the last tool invocation: handler name and arguments
    requests,      \* parameter maps handed to search_google in that invocation
    reply,         \* what GoogleSearch(params).get_dict() did for that request
    result         \* how the invocation ended: a returned mapping or a raise

vars == <<environ, SERP_API_KEY, call, requests, reply, result>>

----------------------------------------------------------------------------
\* Bounds of the model.

\* longest query string given to get_stock_quote
MaxLen == 3
\* longest best_flights list in an upstream payload
MaxGroups == 2

----------------------------------------------------------------------------
\* Python values.

PyNone == [t |-> "none"]
PyStr(s) == [t |-> "str", v |-> s]
PyInt(n) == [t |-> "int", v |-> n]
PyBool(b) == [t |-> "bool", v |-> b]
PyDict(d) == [t |-> "dict", v |-> d]
PyList(l) == [t |-> "list", v |-> l]
\* a str literal of the source that no operation looks into
Lit(s) == PyStr(<<s>>)

\* bool(x), as used by `if x`, `not x`, `x and ...`
Truthy(x) ==
    CASE x.t = "none" -> FALSE
      [] x.t = "str"  -> x.v # <<>>
      [] x.t = "int"  -> x.v # 0
      [] x.t = "bool" -> x.v
      [] x.t = "dict" -> DOMAIN x.v # {}
      [] x.t = "list" -> x.v # <<>>

\* str(x) / the {x} of an f-string, as a sequence of symbols
Format(x) ==
    CASE x.t = "none" -> <<"None">>
      [] x.t = "str"  -> x.v
      [] x.t = "int"  -> <<ToString(x.v)>>
      [] x.t = "bool" -> IF x.v THEN <<"True">> ELSE <<"False">>
      [] OTHER        -> <<"<repr>">>

\* d[k] = v on a dict
DictSet(d, k, v) == [x \in (DOMAIN d) \cup {k} |-> IF x = k THEN v ELSE d[x]]
\* d.get(k, default)
DictGet(d, k, default) == IF k \in DOMAIN d THEN d[k] ELSE default

----------------------------------------------------------------------------
\* str methods, character by character.

LowerLetters == <<"a","b","c","d","e","f","g","h","i","j","k","l","m",
                  "n","o","p","q","r","s","t","u","v","w","x","y","z">>
UpperLetters == <<"A","B","C","D","E","F","G","H","I","J","K","L","M",
                  "N","O","P","Q","R","S","T","U","V","W","X","Y","Z">>
DigitChars == <<"0","1","2","3","4","5","6","7","8","9">>
SpaceChars == {" "}

Range(f) == {f[i] : i \in DOMAIN f}
IndexIn(c, table) == CHOOSE i \in DOMAIN table : table[i] = c

char_upper(c) ==
    IF c \in Range(LowerLetters) THEN UpperLetters[IndexIn(c, LowerLetters)] ELSE c
char_lower(c) ==
    IF c \in Range(UpperLetters) THEN LowerLetters[IndexIn(c, UpperLetters)] ELSE c
char_isdigit(c) == c \in Range(DigitChars)

\* s.upper(), s.lower()
str_upper(s) == [i \in 1..Len(s) |-> char_upper(s[i])]
str_lower(s) == [i \in 1..Len(s) |-> char_lower(s[i])]
\* s.replace(old, new) for one-character old and new
str_replace(s, old, new) == [i \in 1..Len(s) |-> IF s[i] = old THEN new ELSE s[i]]

\* s.strip(): leading and trailing whitespace removed
RECURSIVE str_lstrip(_)
str_lstrip(s) ==
    IF s # <<>> /\ Head(s) \in SpaceChars THEN str_lstrip(Tail(s)) ELSE s
RECURSIVE str_rstrip(_)
str_rstrip(s) ==
    IF s # <<>> /\ s[Len(s)] \in SpaceChars
    THEN str_rstrip(SubSeq(s, 1, Len(s) - 1))
    ELSE s
str_strip(s) == str_rstrip(str_lstrip(s))

\* s.isupper(): at least one cased character and no lowercase one
str_isupper(s) ==
    /\ \E i \in 1..Len(s) : s[i] \in Range(UpperLetters)
    /\ \A i \in 1..Len(s) : s[i] \notin Range(LowerLetters)

\* s.split(sep): the parts between the occurrences of sep, always at least one
RECURSIVE str_split(_, _)
str_split(s, sep) ==
    IF \A i \in 1..Len(s) : s[i] # sep
    THEN <<s>>
    ELSE LET k == CHOOSE i \in 1..Len(s) :
                     s[i] = sep /\ \A j \in 1..(i - 1) : s[j] # sep
         IN  <<SubSeq(s, 1, k - 1)>> \o str_split(SubSeq(s, k + 1, Len(s)), sep)

\* s.split(): the whitespace-separated words, none of them empty
RECURSIVE str_words(_)
str_words(s) ==
    LET t == str_lstrip(s)
    IN  IF t = <<>>
        THEN <<>>
        ELSE LET n == IF \A i \in 1..Len(t) : t[i] \notin SpaceChars
                      THEN Len(t)
                      ELSE (CHOOSE i \in 1..Len(t) :
                               t[i] \in SpaceChars
                               /\ \A j \in 1..(i - 1) : t[j] \notin SpaceChars) - 1
             IN  <<SubSeq(t, 1, n)>> \o str_words(SubSeq(t, n + 1, Len(t)))

\* sep.join(parts)
RECURSIVE str_join(_, _)
str_join(sep, parts) ==
    IF parts = <<>> THEN <<>>
    ELSE IF Len(parts) = 1 THEN parts[1]
    ELSE parts[1] \o sep \o str_join(sep, Tail(parts))

----------------------------------------------------------------------------
\* utils/google_finance_utils.py

valid_trends == <<"indexes", "most-active", "gainers", "losers",
                  "climate-leaders", "cryptocurrencies", "currencies">>
valid_periods == <<"1d", "5d", "1m", "6m", "ytd", "1y", "5y", "max">>
valid_categories == <<"all", "latest", "opinion", "press_releases">>
valid_windows == <<"week", "month", "3month", "6month", "year">>

\* normalize_query without the test for digits in the first part
normalize_query_any_caps(query) ==
    IF ":" \in Range(query)
    THEN LET parts == str_split(query, ":")
         IN  IF Len(parts) = 2 /\ str_isupper(parts[1])
             THEN parts[2] \o <<":">> \o parts[1]
             ELSE query
    ELSE query

\* normalize_query(query), query a str given as its characters
normalize_query(query) ==
    IF ":" \in Range(query)
    THEN LET parts == str_split(query, ":")
         IN  IF Len(parts) = 2
                /\ str_isupper(parts[1])
                /\ ~ \E i \in 1..Len(parts[1]) : char_isdigit(parts[1][i])
             THEN parts[2] \o <<":">> \o parts[1]
             ELSE query
    ELSE query

\* datetime.now().isoformat()
Timestamp == Lit("<now>")

\* create_error_response without its success flag
create_error_response_no_flag(query, error, tool_type) ==
    [tool |-> Lit(tool_type), query |-> query, timestamp |-> Timestamp, error |-> error]

create_error_response(query, error, tool_type) ==
    [tool |-> Lit(tool_type), query |-> query, timestamp |-> Timestamp,
     error |-> error, success |-> PyBool(FALSE)]

create_success_response(query, data, tool_type) ==
    [tool |-> Lit(tool_type), query |-> query, timestamp |-> Timestamp,
     success |-> PyBool(TRUE), api_response |-> data]

----------------------------------------------------------------------------
\* mcp_tools.py: the gateway.

\* How an invocation ends.
Returned(d) == [kind |-> "returned", value |-> d]
Raised(exc) == [kind |-> "raised", exc |-> exc]
\* What a handler did: the requests it issued, the upstream reply, its end.
Out(reqs, rep, res) == [requests |-> reqs, reply |-> rep, result |-> res]
NotCalled == [k |-> "not called"]

\* `k in x` for a str k and a dict or list x
PyIn(k, x) ==
    CASE x.t = "dict" -> k \in DOMAIN x.v
      [] x.t = "list" -> \E i \in 1..Len(x.v) : x.v[i] = Lit(k)
      [] OTHER        -> FALSE

\* search_google(params); up is what GoogleSearch(params).get_dict() does:
\* it raises, or it returns a value (a dict, or a payload that is no dict).
search_google(params, up) ==
    IF up.k = "raise"
    THEN PyDict([error |-> up.msg])
    ELSE LET results == up.v
         IN  IF results.t \notin {"dict", "list"}
             THEN \* `"error" in results` raises TypeError inside the try
                  PyDict([error |-> Lit("argument of type 'NoneType' is not iterable")])
             ELSE IF PyIn("error", results)
             THEN IF results.t = "dict"
                  THEN PyDict([error |-> results.v.error])
                  ELSE \* results["error"] on a list raises TypeError inside the try
                       PyDict([error |-> Lit("list indices must be integers or slices, not str")])
             ELSE results

----------------------------------------------------------------------------
\* utils/google_flights_utils.py

\* int(x): whether it succeeds, and its value
int_ok(x) ==
    CASE x.t = "int"  -> TRUE
      [] x.t = "bool" -> TRUE
      [] x.t = "str"  ->
            LET s == str_strip(x.v)
                d == IF s # <<>> /\ Head(s) \in {"+", "-"} THEN Tail(s) ELSE s
            IN  d # <<>> /\ \A i \in 1..Len(d) : char_isdigit(d[i])
      [] OTHER        -> FALSE
RECURSIVE digits_value(_)
digits_value(d) ==
    IF d = <<>> THEN 0
    ELSE 10 * digits_value(SubSeq(d, 1, Len(d) - 1)) + (IndexIn(d[Len(d)], DigitChars) - 1)
int_value(x) ==
    CASE x.t = "int"  -> x.v
      [] x.t = "bool" -> IF x.v THEN 1 ELSE 0
      [] x.t = "str"  ->
            LET s == str_strip(x.v)
            IN  IF Head(s) = "-" THEN 0 - digits_value(Tail(s))
                ELSE IF Head(s) = "+" THEN digits_value(Tail(s))
                ELSE digits_value(s)

\* pydantic's check of an Optional[int] / Optional[float] field of FlightDetails
NumberField(x) == x.t = "none" \/ int_ok(x)

\* the body of the loop of parse_flights for one group that has legs:
\* the FlightDetails(...) call and its .dict()
flatten_group(flight_info) ==
    LET flight_legs == DictGet(flight_info, "flights", <<>>)
        first_leg == flight_legs[1]
        departure_airport == DictGet(first_leg, "departure_airport", <<>>)
        arrival_airport == DictGet(first_leg, "arrival_airport", <<>>)
        departure_time == DictGet(departure_airport, "time", PyStr(<<>>))
        arrival_time == DictGet(arrival_airport, "time", PyStr(<<>>))
    IN  [departure_airport_id |-> DictGet(departure_airport, "id", PyNone),
         departure_airport_name |-> DictGet(departure_airport, "name", PyNone),
         departure_time |-> departure_time,
         arrival_airport_id |-> DictGet(arrival_airport, "id", PyNone),
         arrival_airport_name |-> DictGet(arrival_airport, "name", PyNone),
         arrival_time |-> arrival_time,
         airline |-> DictGet(first_leg, "airline", PyNone),
         flight_number |-> DictGet(first_leg, "flight_number", PyNone),
         airplane |-> DictGet(first_leg, "airplane", PyNone),
         travel_class |-> DictGet(first_leg, "travel_class", PyNone),
         duration |-> DictGet(first_leg, "duration", PyNone),
         legroom |-> DictGet(first_leg, "legroom", PyNone),
         overnight |-> DictGet(first_leg, "overnight", PyNone),
         ticket_also_sold_by |-> DictGet(first_leg, "ticket_also_sold_by", PyNone),
         extensions |-> DictGet(first_leg, "extensions", PyNone),
         price |-> DictGet(flight_info, "price", PyNone),
         max_price |-> PyNone,
         departure_date |-> IF Truthy(departure_time)
                            THEN PyStr(str_words(departure_time.v)[1])
                            ELSE DictGet(flight_info, "departure_date", PyNone),
         return_date |-> DictGet(flight_info, "return_date", PyNone),
         passenger |-> DictGet(flight_info, "passenger", PyInt(1)),
         total_duration |-> DictGet(flight_info, "total_duration", PyNone),
         carbon_emissions |-> DictGet(flight_info, "carbon_emissions", PyNone),
         legs |-> DictGet(flight_info, "flights", PyNone)]

\* whether building the record of a group raises: the index [0] of an empty
\* split(), or pydantic's ValidationError on a numeric field
flatten_raises(flight_info) ==
    LET first_leg == DictGet(flight_info, "flights", <<>>)[1]
        departure_time ==
            DictGet(DictGet(first_leg, "departure_airport", <<>>), "time", PyStr(<<>>))
    IN  \/ Truthy(departure_time) /\ str_words(departure_time.v) = <<>>
        \/ ~ NumberField(DictGet(first_leg, "duration", PyNone))
        \/ ~ NumberField(DictGet(flight_info, "price", PyNone))
        \/ ~ NumberField(DictGet(flight_info, "passenger", PyInt(1)))
        \/ ~ NumberField(DictGet(flight_info, "total_duration", PyNone))

\* parse_flights(flights_data): [raised: BOOLEAN, value: the parsed list]
RECURSIVE parse_flights(_)
parse_flights(flights_data) ==
    IF flights_data = <<>>
    THEN [raised |-> FALSE, value |-> <<>>]
    ELSE LET flight_info == Head(flights_data)
             flight_legs == DictGet(flight_info, "flights", <<>>)
         IN  IF flight_legs = <<>>
             THEN parse_flights(Tail(flights_data))
             ELSE IF flatten_raises(flight_info)
             THEN [raised |-> TRUE, value |-> <<>>]
             ELSE LET rest == parse_flights(Tail(flights_data))
                  IN  [raised |-> rest.raised,
                       value |-> IF rest.raised THEN <<>>
                                 ELSE <<flatten_group(flight_info)>> \o rest.value]

----------------------------------------------------------------------------
\* mcp_tools.py: google_flights

TRAVEL_CLASS_MAP == <<
    [key |-> <<"e","c","o","n","o","m","y">>,
     tier |-> 1],
    [key |-> <<"e","c","o">>,
     tier |-> 1],
    [key |-> <<"c","o","a","c","h">>,
     tier |-> 1],
    [key |-> <<"p","r","e","m","i","u","m">>,
     tier |-> 2],
    [key |-> <<"p","r","e","m","i","u","m"," ","e","c","o","n","o","m","y">>,
     tier |-> 2],
    [key |-> <<"p","r","e","m","i","u","m","_","e","c","o","n","o","m","y">>,
     tier |-> 2],
    [key |-> <<"b","u","s","i","n","e","s","s">>,
     tier |-> 3],
    [key |-> <<"b","u","s","i","n","e","s","s"," ","c","l","a","s","s">>,
     tier |-> 3],
    [key |-> <<"b","u","s","i","n","e","s","s","_","c","l","a","s","s">>,
     tier |-> 3],
    [key |-> <<"f","i","r","s","t">>,
     tier |-> 4],
    [key |-> <<"f","i","r","s","t"," ","c","l","a","s","s">>,
     tier |-> 4],
    [key |-> <<"f","i","r","s","t","_","c","l","a","s","s">>,
     tier |-> 4],
    [key |-> <<"l","u","x","u","r","y">>,
     tier |-> 4]
>>

travel_class_keys == [i \in DOMAIN TRAVEL_CLASS_MAP |-> TRAVEL_CLASS_MAP[i].key]
\* TRAVEL_CLASS_MAP[key]
travel_class_tier(key) ==
    TRAVEL_CLASS_MAP[CHOOSE i \in DOMAIN TRAVEL_CLASS_MAP : TRAVEL_CLASS_MAP[i].key = key].tier

\* str(list_of_str): "['a', 'b']"
list_repr(items) ==
    <<"[">> \o str_join(<<", ">>, [i \in DOMAIN items |-> <<"'">> \o items[i] \o <<"'">>])
            \o <<"]">>

\* l[:n]
slice_to(l, n) ==
    IF n >= 0
    THEN SubSeq(l, 1, IF n < Len(l) THEN n ELSE Len(l))
    ELSE SubSeq(l, 1, IF Len(l) + n > 0 THEN Len(l) + n ELSE 0)

\* lines 125-142: the try block of google_flights
flights_try(params, max_results, up) ==
    LET results == search_google(params, up)
    IN  IF PyIn("error", results)
        THEN IF results.t = "dict"
             THEN Returned([error |-> PyStr(<<"SerpAPI error: ">> \o Format(results.v.error))])
             ELSE Returned([error |-> Lit("Error searching flights: list indices must be integers or slices, not str")])
        ELSE IF results.t # "dict"
        THEN \* results.get raises AttributeError, caught at line 141
             Returned([error |-> Lit("Error searching flights: 'list' object has no attribute 'get'")])
        ELSE LET best_flights == DictGet(results.v, "best_flights", <<>>)
             IN  IF best_flights = <<>>
                 THEN Returned([message |-> Lit("No flights found.")])
                 ELSE LET parsed_flights == parse_flights(slice_to(best_flights, max_results.v))
                      IN  IF parsed_flights.raised
                          THEN Returned([error |-> Lit("Error searching flights: <exception>")])
                          ELSE Returned([best_flights |-> PyList(parsed_flights.value)])

\* flight_trip with the two type flags exchanged
flight_trip_flags_swapped(params, return_date) ==
    IF Truthy(return_date)
    THEN DictSet(DictSet(params, "return_date", return_date), "type", Lit("2"))
    ELSE DictSet(params, "type", Lit("1"))

\* lines 109-113: the round-trip / one-way part of the parameter map
flight_trip(params, return_date) ==
    IF Truthy(return_date)
    THEN DictSet(DictSet(params, "return_date", return_date), "type", Lit("1"))
    ELSE DictSet(params, "type", Lit("2"))

\* google_flights(...); a is the record of its arguments
google_flights(a, up) ==
    IF Truthy(a.passengers) /\ ~ int_ok(a.passengers)
    THEN Out(<<>>, NotCalled, Raised("ValueError"))
    ELSE IF Truthy(a.travel_class) /\ a.travel_class.t # "str"
    THEN Out(<<>>, NotCalled, Raised("AttributeError"))
    ELSE
    LET passengers == IF Truthy(a.passengers) THEN int_value(a.passengers) ELSE 1
        travel_class_key ==
            IF Truthy(a.travel_class)
            THEN str_strip(str_replace(str_lower(a.travel_class.v), "-", "_"))
            ELSE <<"e","c","o","n","o","m","y">>
    IN  IF travel_class_key \notin Range(travel_class_keys)
        THEN Out(<<>>, NotCalled,
                 Returned([error |-> PyStr(<<"Invalid travel_class '">>
                                           \o Format(a.travel_class)
                                           \o <<"'. Must be one of ">>
                                           \o list_repr(travel_class_keys))]))
        ELSE IF a.departure_airport.t # "str" \/ a.arrival_airport.t # "str"
        THEN Out(<<>>, NotCalled, Raised("AttributeError"))
        ELSE
        LET travel_class_int == travel_class_tier(travel_class_key)
            p0 == [engine |-> Lit("google_flights"),
                   departure_id |-> PyStr(str_upper(a.departure_airport.v)),
                   arrival_id |-> PyStr(str_upper(a.arrival_airport.v)),
                   outbound_date |-> a.departure_date,
                   adults |-> PyInt(passengers),
                   travel_class |-> PyInt(travel_class_int),
                   hl |-> Lit("en")]
            p1 == flight_trip(p0, a.return_date)
            p2 == IF Truthy(a.max_price) THEN DictSet(p1, "max_price", a.max_price) ELSE p1
            p3 == IF Truthy(a.airline_name) THEN DictSet(p2, "airline_name", a.airline_name) ELSE p2
            api_key == SERP_API_KEY
        IN  IF ~ Truthy(api_key)
            THEN Out(<<>>, NotCalled,
                     Returned([error |-> Lit("SERP_API_KEY environment variable is required")]))
            ELSE LET params == DictSet(p3, "api_key", api_key)
                 IN  Out(<<params>>, up, flights_try(params, a.max_results, up))

----------------------------------------------------------------------------
\* mcp_tools.py: the finance handlers

\* `x in valid` for a list of str literals
InList(x, valid) == x.t = "str" /\ \E i \in DOMAIN valid : x.v = <<valid[i]>>
\* ', '.join(valid)
joined(valid) == str_join(<<", ">>, [i \in DOMAIN valid |-> <<valid[i]>>])

\* `if gl: params["gl"] = gl` and `if hl: params["hl"] = hl`
with_locale(params, gl, hl) ==
    LET p1 == IF Truthy(gl) THEN DictSet(params, "gl", gl) ELSE params
    IN  IF Truthy(hl) THEN DictSet(p1, "hl", hl) ELSE p1

\* the lines closing each finance handler: the call of search_google, the
\* probe for "error" and the envelope
finance_dispatch(query, params, up, tool_type) ==
    LET data == search_google(params, up)
    IN  Out(<<params>>, up,
            IF PyIn("error", data)
            THEN Returned(create_error_response(
                     query, PyStr(<<"API Error: ">> \o Format(data.v.error)), tool_type))
            ELSE Returned(create_success_response(query, data, tool_type)))

NotConfigured(query, tool_type) ==
    Out(<<>>, NotCalled,
        Returned(create_error_response(query, Lit("SERP_API_KEY not configured"), tool_type)))

get_stock_quote(a, up) ==
    IF a.q.t # "str"
    THEN Out(<<>>, NotCalled, Raised("AttributeError"))
    ELSE IF str_strip(a.q.v) = <<>>
    THEN Out(<<>>, NotCalled,
             Returned(create_error_response(a.q, Lit("Query cannot be empty"), "stock_quote")))
    ELSE LET api_key == SERP_API_KEY
         IN  IF ~ Truthy(api_key)
             THEN NotConfigured(a.q, "stock_quote")
             ELSE finance_dispatch(
                      a.q,
                      with_locale([engine |-> Lit("google_finance"),
                                   q |-> PyStr(normalize_query(a.q.v)),
                                   api_key |-> api_key], a.gl, a.hl),
                      up, "stock_quote")

get_market_data(a, up) ==
    IF ~ InList(a.trend, valid_trends)
    THEN Out(<<>>, NotCalled,
             Returned(create_error_response(
                 a.trend,
                 PyStr(<<"Invalid trend '">> \o Format(a.trend)
                       \o <<"'. Valid trends: ">> \o joined(valid_trends)),
                 "market_data")))
    ELSE LET api_key == SERP_API_KEY
         IN  IF ~ Truthy(api_key)
             THEN NotConfigured(a.trend, "market_data")
             ELSE finance_dispatch(
                      a.trend,
                      with_locale([engine |-> Lit("google_finance_markets"),
                                   trend |-> a.trend,
                                   api_key |-> api_key], a.gl, a.hl),
                      up, "market_data")

\* get_graph_data and compare_stocks differ in their tool tag only
period_handler(a, up, tool_type) ==
    IF ~ InList(a.period, valid_periods)
    THEN Out(<<>>, NotCalled,
             Returned(create_error_response(
                 a.q,
                 PyStr(<<"Invalid period '">> \o Format(a.period)
                       \o <<"'. Valid periods: ">> \o joined(valid_periods)),
                 tool_type)))
    ELSE LET api_key == SERP_API_KEY
         IN  IF ~ Truthy(api_key)
             THEN NotConfigured(a.q, tool_type)
             ELSE finance_dispatch(
                      a.q,
                      with_locale([engine |-> Lit("google_finance"),
                                   q |-> a.q,
                                   period |-> a.period,
                                   api_key |-> api_key], a.gl, a.hl),
                      up, tool_type)

get_graph_data(a, up) == period_handler(a, up, "graph_data")

compare_stocks(a, up) == period_handler(a, up, "comparison")

\* os.getenv(key)
getenv(key) == DictGet(environ, key, PyNone)

get_financials(a, up) ==
    IF Truthy(a.window) /\ ~ InList(a.window, valid_windows)
    THEN Out(<<>>, NotCalled,
             Returned(create_error_response(
                 a.q,
                 PyStr(<<"Invalid window '">> \o Format(a.window)
                       \o <<"'. Valid windows: ">> \o joined(valid_windows)),
                 "financials")))
    ELSE LET api_key == getenv("SERP_API_K EY")
         IN  IF ~ Truthy(api_key)
             THEN NotConfigured(a.q, "financials")
             ELSE LET p0 == [engine |-> Lit("google_finance"),
                             q |-> a.q,
                             api_key |-> api_key]
                      p1 == IF Truthy(a.window) THEN DictSet(p0, "window", a.window) ELSE p0
                  IN  finance_dispatch(a.q, with_locale(p1, a.gl, a.hl), up, "financials")

get_stock_news(a, up) ==
    IF a.num.t \notin {"int", "bool"}
    THEN Out(<<>>, NotCalled, Raised("TypeError"))
    ELSE IF int_value(a.num) < 1 \/ int_value(a.num) > 100
    THEN Out(<<>>, NotCalled,
             Returned(create_error_response(
                 a.q, Lit("Number of news items must be between 1 and 100"), "news")))
    ELSE IF Truthy(a.category) /\ ~ InList(a.category, valid_categories)
    THEN Out(<<>>, NotCalled,
             Returned(create_error_response(
                 a.q,
                 PyStr(<<"Invalid category '">> \o Format(a.category)
                       \o <<"'. Valid categories: ">> \o joined(valid_categories)),
                 "news")))
    ELSE LET api_key == SERP_API_KEY
         IN  IF ~ Truthy(api_key)
             THEN NotConfigured(a.q, "news")
             ELSE LET p0 == [engine |-> Lit("google_finance"),
                             q |-> a.q,
                             api_key |-> api_key]
                      p1 == IF Truthy(a.category) /\ a.category # Lit("all")
                            THEN DictSet(p0, "category", a.category) ELSE p0
                      p2 == IF int_value(a.num) # 10 THEN DictSet(p1, "num", a.num) ELSE p1
                      p3 == IF Truthy(a.start) THEN DictSet(p2, "start", a.start) ELSE p2
                  IN  finance_dispatch(a.q, with_locale(p3, a.gl, a.hl), up, "news")

debug_api_response(a, up) ==
    LET api_key == SERP_API_KEY
    IN  IF ~ Truthy(api_key)
        THEN NotConfigured(a.q, "debug")
        ELSE LET p0 == [engine |-> a.engine, api_key |-> api_key]
                 p1 == IF a.engine = Lit("google_finance")
                       THEN DictSet(p0, "q", a.q)
                       ELSE IF a.engine = Lit("google_finance_markets")
                       THEN DictSet(p0, "trend", a.q)
                       ELSE p0
                 params == with_locale(p1, a.gl, a.hl)
                 data == search_google(params, up)
             IN  Out(<<params>>, up,
                     IF PyIn("error", data)
                     THEN Returned(create_error_response(
                              a.q, PyStr(<<"Debug API Error: ">> \o Format(data.v.error)),
                              "debug"))
                     ELSE Returned([tool |-> Lit("debug"), query |-> a.q,
                                    engine |-> a.engine, timestamp |-> Timestamp,
                                    success |-> PyBool(TRUE), api_response |-> data]))

----------------------------------------------------------------------------
\* The inputs: arguments of the tools, the process environment, the upstream.

Strings(alphabet, n) == UNION {[1..k -> alphabet] : k \in 0..n}

\* an uppercase letter or two, a lowercase one, a digit, a character that is
\* neither, the colon, whitespace
QueryChars == {"A", "B", "a", "1", ".", ":", " "}
QueryArgs == {PyNone} \cup {PyStr(s) : s \in Strings(QueryChars, MaxLen)}
\* queries of the handlers that pass q through untouched
PlainQueries == {PyStr(<<>>), PyStr(<<"A","A","P","L">>)}
Locales == {PyNone, Lit("us")}

Credentials == {PyNone, Lit("key-1")}
OtherCredentials == {PyNone, Lit("key-2")}

TravelClassArgs ==
    {PyNone, PyStr(<<>>),
     PyStr(<<"e","c","o","n","o","m","y">>),
     PyStr(<<"E","C","O">>),
     PyStr(<<"P","r","e","m","i","u","m","-","E","c","o","n","o","m","y">>),
     PyStr(<<"b","u","s","i","n","e","s","s"," ","c","l","a","s","s">>),
     PyStr(<<" ","F","i","r","s","t"," ">>),
     PyStr(<<"b","o","g","u","s">>),
     PyStr(<<"f","i","r","s","t"," "," ","c","l","a","s","s">>),
     PyStr(<<"F","I","R","S","T","_","C","L","A","S","S">>),
     PyStr(<<"B","u","s","i","n","e","s","s","-","C","l","a","s","s">>),
     PyStr(<<"c","o","a","c","h">>),
     PyStr(<<"L","u","x","u","r","y">>),
     PyStr(<<"p","r","e","m","i","u","m">>),
     PyStr(<<" ">>),
     PyStr(<<"_","f","i","r","s","t">>),
     PyStr(<<"f","i","r","s","t","c","l","a","s","s">>)}
PassengerArgs ==
    {PyNone, PyInt(0), PyInt(2), PyStr(<<"3">>), PyStr(<<"a","b","c">>)}
AirportArgs == {PyNone, PyStr(<<"j","F","k">>)}
ReturnDateArgs == {PyNone, PyStr(<<>>), Lit("2025-06-10")}

\* legs and itinerary groups of an upstream flight payload
LegA ==
    [departure_airport |-> [id |-> Lit("JFK"), name |-> Lit("John F. Kennedy"),
                            time |-> PyStr(<<"2025-06-01", " ", "08:00">>)],
     arrival_airport |-> [id |-> Lit("LAX"), name |-> Lit("Los Angeles"),
                          time |-> PyStr(<<"2025-06-01", " ", "11:30">>)],
     airline |-> Lit("Delta"), flight_number |-> Lit("DL 1"),
     duration |-> PyInt(390), travel_class |-> Lit("Economy")]
LegB1 ==
    [departure_airport |-> [id |-> Lit("JFK")],
     arrival_airport |-> [id |-> Lit("ORD")],
     airline |-> Lit("United"), flight_number |-> Lit("UA 2"),
     duration |-> PyStr(<<"1","5","0">>), overnight |-> PyBool(TRUE)]
LegB2 ==
    [departure_airport |-> [id |-> Lit("ORD")],
     arrival_airport |-> [id |-> Lit("LAX")],
     airline |-> Lit("United"), flight_number |-> Lit("UA 3"),
     duration |-> PyInt(260)]
LegBad ==
    [departure_airport |-> [id |-> Lit("JFK")],
     airline |-> Lit("Delta"), duration |-> PyStr(<<"n","/","a">>)]

GroupNoLegs == [flights |-> <<>>, price |-> PyInt(100)]
GroupA == [flights |-> <<LegA>>, price |-> PyInt(200), total_duration |-> PyInt(390)]
GroupB == [flights |-> <<LegB1, LegB2>>, price |-> PyInt(300),
           departure_date |-> Lit("2025-06-01"), passenger |-> PyInt(2)]
GroupBad == [flights |-> <<LegBad>>, price |-> PyInt(400)]
Groups == {GroupNoLegs, GroupA, GroupB}

\* what GoogleSearch(params).get_dict() can do, whatever the engine
CommonReplies ==
    {[k |-> "raise", msg |-> Lit("ConnectionError")],
     [k |-> "value", v |-> PyNone],
     [k |-> "value", v |-> PyList(<<Lit("unexpected")>>)],
     [k |-> "value", v |-> PyDict([error |-> Lit("Invalid API key.")])],
     [k |-> "value", v |-> PyDict([search_metadata |-> Lit("Success")])]}
FlightReplies ==
    CommonReplies \cup
    {[k |-> "value", v |-> PyDict([best_flights |-> <<GroupA, GroupBad>>])]} \cup
    {[k |-> "value", v |-> PyDict([search_metadata |-> Lit("Success"), best_flights |-> bf])] :
        bf \in UNION {[1..n -> Groups] : n \in 0..MaxGroups}}

----------------------------------------------------------------------------
\* The server: one tool invocation at a time, each from a clean slate.

Idle == [tool |-> "<idle>"]
NoResult == [kind |-> "none"]

Init ==
    /\ environ \in {[e \in {"SERP_API_KEY", "SERP_API_K EY"} |->
                        IF e = "SERP_API_KEY" THEN c ELSE o] :
                    c \in Credentials, o \in OtherCredentials}
    /\ SERP_API_KEY = environ["SERP_API_KEY"]
    /\ call = Idle
    /\ requests = <<>>
    /\ reply = NotCalled
    /\ result = NoResult

\* the invocation of `tool` with arguments a, which did o
Invoke(tool, a, o) ==
    /\ call' = [tool |-> tool, args |-> a]
    /\ requests' = o.requests
    /\ reply' = o.reply
    /\ result' = o.result
    /\ UNCHANGED <<environ, SERP_API_KEY>>

\* the upstream answers only the invocations that reach the gateway
NoReply == [k |-> "raise", msg |-> Lit("ConnectionError")]
Answers(reached, replies) == IF reached THEN replies ELSE {NoReply}

\* airline_name and max_price, both absent or both given
FilterArgs == {[airline_name |-> PyNone, max_price |-> PyNone],
               [airline_name |-> Lit("Delta"), max_price |-> PyInt(500)]}
MaxResultsArgs == {PyInt(0 - 1), PyInt(0), PyInt(1), PyInt(2), PyInt(5)}

Call_google_flights ==
    /\ call = Idle
    /\ \E dep \in AirportArgs, arr \in AirportArgs, ret \in ReturnDateArgs,
          f \in FilterArgs, tc \in TravelClassArgs, n \in MaxResultsArgs,
          pass \in PassengerArgs :
        LET a == [departure_airport |-> dep, arrival_airport |-> arr,
                  departure_date |-> Lit("2025-06-01"), return_date |-> ret,
                  airline_name |-> f.airline_name, travel_class |-> tc,
                  max_price |-> f.max_price, max_results |-> n, passengers |-> pass]
        IN  \E up \in Answers(google_flights(a, NoReply).requests # <<>>, FlightReplies) :
                Invoke("google_flights", a, google_flights(a, up))

Call_get_stock_quote ==
    /\ call = Idle
    /\ \E q \in QueryArgs, gl \in Locales, hl \in Locales :
        LET a == [q |-> q, gl |-> gl, hl |-> hl]
        IN  \E up \in Answers(get_stock_quote(a, NoReply).requests # <<>>, CommonReplies) :
                Invoke("get_stock_quote", a, get_stock_quote(a, up))

Call_get_market_data ==
    /\ call = Idle
    /\ \E trend \in {PyNone, Lit("indexes"), Lit("most-active"), Lit("bogus")},
          gl \in Locales, hl \in Locales :
        LET a == [trend |-> trend, gl |-> gl, hl |-> hl]
        IN  \E up \in Answers(get_market_data(a, NoReply).requests # <<>>, CommonReplies) :
                Invoke("get_market_data", a, get_market_data(a, up))

Call_get_graph_data ==
    /\ call = Idle
    /\ \E q \in PlainQueries, period \in {PyNone, Lit("1d"), Lit("max"), Lit("2d")},
          gl \in Locales, hl \in Locales :
        LET a == [q |-> q, period |-> period, gl |-> gl, hl |-> hl]
        IN  \E up \in Answers(get_graph_data(a, NoReply).requests # <<>>, CommonReplies) :
                Invoke("get_graph_data", a, get_graph_data(a, up))

Call_compare_stocks ==
    /\ call = Idle
    /\ \E q \in PlainQueries, period \in {PyNone, Lit("1d"), Lit("max"), Lit("2d")},
          gl \in Locales, hl \in Locales :
        LET a == [q |-> q, period |-> period, gl |-> gl, hl |-> hl]
        IN  \E up \in Answers(compare_stocks(a, NoReply).requests # <<>>, CommonReplies) :
                Invoke("compare_stocks", a, compare_stocks(a, up))

Call_get_financials ==
    /\ call = Idle
    /\ \E q \in PlainQueries, window \in {PyNone, Lit("week"), Lit("year"), Lit("decade")},
          gl \in Locales, hl \in Locales :
        LET a == [q |-> q, window |-> window, gl |-> gl, hl |-> hl]
        IN  \E up \in Answers(get_financials(a, NoReply).requests # <<>>, CommonReplies) :
                Invoke("get_financials", a, get_financials(a, up))

Call_get_stock_news ==
    /\ call = Idle
    /\ \E q \in PlainQueries, category \in {PyNone, Lit("all"), Lit("latest"), Lit("rumours")},
          num \in {PyNone, PyInt(0), PyInt(1), PyInt(10), PyInt(100), PyInt(101), PyInt(150)},
          start \in {PyNone, PyInt(5)},
          gl \in Locales, hl \in Locales :
        LET a == [q |-> q, category |-> category, num |-> num, start |-> start,
                  gl |-> gl, hl |-> hl]
        IN  \E up \in Answers(get_stock_news(a, NoReply).requests # <<>>, CommonReplies) :
                Invoke("get_stock_news", a, get_stock_news(a, up))

Call_debug_api_response ==
    /\ call = Idle
    /\ \E q \in PlainQueries,
          engine \in {Lit("google_finance"), Lit("google_finance_markets"), Lit("google_news")},
          gl \in Locales, hl \in Locales :
        LET a == [q |-> q, engine |-> engine, gl |-> gl, hl |-> hl]
        IN  \E up \in Answers(debug_api_response(a, NoReply).requests # <<>>, CommonReplies) :
                Invoke("debug_api_response", a, debug_api_response(a, up))

\* normalize_query called on its own, as get_stock_quote and the tests of
\* the utility module call it
Call_normalize_query ==
    /\ call = Idle
    /\ \E s \in Strings(QueryChars, MaxLen) :
        Invoke("normalize_query", [query |-> PyStr(s)],
               Out(<<>>, NotCalled, Returned(PyStr(normalize_query(s)))))

\* the result goes back to the caller; the next invocation shares nothing with it
Deliver ==
    /\ call # Idle
    /\ call' = Idle
    /\ requests' = <<>>
    /\ reply' = NotCalled
    /\ result' = NoResult
    /\ UNCHANGED <<environ, SERP_API_KEY>>

Next ==
    \/ Call_google_flights
    \/ Call_get_stock_quote
    \/ Call_get_market_data
    \/ Call_get_graph_data
    \/ Call_compare_stocks
    \/ Call_get_financials
    \/ Call_get_stock_news
    \/ Call_debug_api_response
    \/ Call_normalize_query
    \/ Deliver

Spec == Init /\ [][Next]_vars

----------------------------------------------------------------------------
\* What the claims speak of.

Handlers == {"google_flights", "get_stock_quote", "get_market_data", "get_graph_data",
             "compare_stocks", "get_financials", "get_stock_news", "debug_api_response"}
\* a tool handler has run and its result is not yet delivered
HandlerDone == call # Idle /\ call.tool \in Handlers
ReturnedMapping == result.kind = "returned"
HasKey(k) == ReturnedMapping /\ k \in DOMAIN result.value
GatewayCalls == Len(requests)

\* ResponseEnvelope: `success`, exactly one of api_response / error, and
\* success true exactly when api_response is the one present
IsEnvelope(d) ==
    /\ "success" \in DOMAIN d
    /\ ("api_response" \in DOMAIN d) # ("error" \in DOMAIN d)
    /\ d.success = PyBool("api_response" \in DOMAIN d)

\* the travel classes of the alias table, spelled as a caller may spell them
KnownTravelClass(tc) ==
    tc \in {PyNone, PyStr(<<>>),
            PyStr(<<"e","c","o","n","o","m","y">>), PyStr(<<"E","C","O">>),
            PyStr(<<"P","r","e","m","i","u","m","-","E","c","o","n","o","m","y">>),
            PyStr(<<"b","u","s","i","n","e","s","s"," ","c","l","a","s","s">>),
            PyStr(<<" ","F","i","r","s","t"," ">>),
            PyStr(<<"F","I","R","S","T","_","C","L","A","S","S">>),
            PyStr(<<"B","u","s","i","n","e","s","s","-","C","l","a","s","s">>),
            PyStr(<<"c","o","a","c","h">>),
            PyStr(<<"L","u","x","u","r","y">>),
            PyStr(<<"p","r","e","m","i","u","m">>)}
OneOf(x, names) == \E n \in names : x = Lit(n)

\* an argument outside its closed set or numeric range
InvalidArgument ==
    LET a == call.args
    IN  CASE call.tool = "google_flights" -> ~ KnownTravelClass(a.travel_class)
          [] call.tool = "get_market_data" ->
                ~ OneOf(a.trend, {"indexes", "most-active", "gainers", "losers",
                                  "climate-leaders", "cryptocurrencies", "currencies"})
          [] call.tool \in {"get_graph_data", "compare_stocks"} ->
                ~ OneOf(a.period, {"1d", "5d", "1m", "6m", "ytd", "1y", "5y", "max"})
          [] call.tool = "get_financials" ->
                a.window # PyNone
                /\ ~ OneOf(a.window, {"week", "month", "3month", "6month", "year"})
          [] call.tool = "get_stock_news" ->
                \/ a.num.t = "int" /\ (a.num.v < 1 \/ a.num.v > 100)
                \/ a.category # PyNone
                   /\ ~ OneOf(a.category, {"all", "latest", "opinion", "press_releases"})
          [] OTHER -> FALSE

\* an argument of the wrong type or an empty query: not valid, though inside
\* no closed set
IllTypedArgument ==
    LET a == call.args
    IN  CASE call.tool = "google_flights" ->
                \/ a.departure_airport = PyNone
                \/ a.arrival_airport = PyNone
                \/ a.passengers \notin {PyNone, PyStr(<<"3">>)} /\ a.passengers.t # "int"
          [] call.tool = "get_stock_quote" ->
                a.q = PyNone \/ \A i \in 1..Len(a.q.v) : a.q.v[i] = " "
          [] call.tool = "get_stock_news" -> a.num.t # "int"
          [] OTHER -> FALSE

ValidArguments == ~ InvalidArgument /\ ~ IllTypedArgument
CredentialConfigured == environ["SERP_API_KEY"] # PyNone

\* a returned error that reports the rejected argument
ValidationError ==
    /\ HasKey("error")
    /\ ~ HasKey("api_response")
    /\ Head(result.value.error.v) \in
           {"Invalid travel_class '", "Invalid trend '", "Invalid period '",
            "Invalid window '", "Invalid category '",
            "Number of news items must be between 1 and 100"}

C2_InvalidArgumentRejectedBeforeGateway ==
    (HandlerDone /\ InvalidArgument) => (ValidationError /\ GatewayCalls = 0)

\* what each handler answers, in the present environment, to a valid call
ReferenceOutcomes ==
    LET ok == [gl |-> PyNone, hl |-> PyNone]
        q == PyStr(<<"A","A","P","L">>)
    IN  {google_flights([departure_airport |-> PyStr(<<"j","F","k">>),
                         arrival_airport |-> PyStr(<<"j","F","k">>),
                         departure_date |-> Lit("2025-06-01"), return_date |-> PyNone,
                         airline_name |-> PyNone, travel_class |-> PyNone,
                         max_price |-> PyNone, max_results |-> PyInt(5),
                         passengers |-> PyNone], NoReply),
         get_stock_quote([q |-> q] @@ ok, NoReply),
         get_market_data([trend |-> Lit("indexes")] @@ ok, NoReply),
         get_graph_data([q |-> q, period |-> Lit("1d")] @@ ok, NoReply),
         compare_stocks([q |-> q, period |-> Lit("1d")] @@ ok, NoReply),
         get_financials([q |-> q, window |-> PyNone] @@ ok, NoReply),
         get_stock_news([q |-> q, category |-> PyNone, num |-> PyInt(10),
                         start |-> PyNone] @@ ok, NoReply),
         debug_api_response([q |-> q, engine |-> Lit("google_finance")] @@ ok, NoReply)}

\* C3: without the credential every handler, called with valid arguments,
\* returns an error without invoking the gateway, and that error has the same
\* message and the same envelope shape whichever handler was called.
C3_MissingCredentialUniform ==
    (HandlerDone /\ ~ CredentialConfigured /\ ValidArguments) =>
        /\ HasKey("error")
        /\ GatewayCalls = 0
        /\ \A o \in ReferenceOutcomes :
              /\ o.result.kind = "returned"
              /\ "error" \in DOMAIN o.result.value
              /\ o.result.value.error = result.value.error
              /\ DOMAIN o.result.value = DOMAIN result.value

\* C4: no handler invocation ends in a raised exception.
C4_NothingRaisesPastHandler ==
    HandlerDone => result.kind = "returned"

\* the groups of a list that have at least one leg, in order
RECURSIVE WithLegs(_)
WithLegs(groups) ==
    IF groups = <<>> THEN <<>>
    ELSE IF "flights" \in DOMAIN Head(groups) /\ Len(Head(groups).flights) > 0
         THEN <<Head(groups)>> \o WithLegs(Tail(groups))
         ELSE WithLegs(Tail(groups))
Min(x, y) == IF x < y THEN x ELSE y

\* a flight search that reached the upstream and got a well-formed payload
FlightPayload ==
    /\ call # Idle /\ call.tool = "google_flights"
    /\ GatewayCalls = 1
    /\ reply.k = "value" /\ reply.v.t = "dict"
    /\ "error" \notin DOMAIN reply.v.v
    /\ call.args.max_results.v >= 0
    /\ ~ HasKey("error")
ListedGroups == IF "best_flights" \in DOMAIN reply.v.v THEN reply.v.v.best_flights ELSE <<>>
ReturnedRecords == IF HasKey("best_flights") THEN result.value.best_flights.v ELSE <<>>

\* C5: the returned records are the flattened first min(K, N) groups that
\* have a leg, in input order; groups without legs use none of the N slots.
C5_FirstNGroupsWithLegs ==
    FlightPayload =>
        LET kept == WithLegs(ListedGroups)
            n == Min(Len(kept), call.args.max_results.v)
        IN  ReturnedRecords = [i \in 1..n |-> flatten_group(kept[i])]

\* C6: a flight search with nothing to report returns exactly the no-results
\* message, never an error and never a success with an empty best_flights.
C6_NoResultsMessage ==
    (FlightPayload
     /\ (WithLegs(ListedGroups) = <<>> \/ call.args.max_results.v = 0)) =>
        /\ ReturnedMapping
        /\ result.value = [message |-> Lit("No flights found.")]

\* the positions of the colons of a string
Colons(s) == {i \in 1..Len(s) : s[i] = ":"}
LeftOf(s) == SubSeq(s, 1, (CHOOSE i \in Colons(s) : TRUE) - 1)
RightOf(s) == SubSeq(s, (CHOOSE i \in Colons(s) : TRUE) + 1, Len(s))
Swapped(s) == RightOf(s) \o <<":">> \o LeftOf(s)
UpperCase == {"A", "B"}
LowerCase == {"a"}
Digits == {"1"}

NormalizeDone == call # Idle /\ call.tool = "normalize_query"

\* C7 as stated: the parts are swapped exactly when there is one colon and
\* the left part is made of uppercase letters only.
C7_SwapIffUppercaseLettersOnly ==
    NormalizeDone =>
        LET s == call.args.query.v
            swap == /\ Cardinality(Colons(s)) = 1
                    /\ LeftOf(s) # <<>>
                    /\ \A i \in 1..Len(LeftOf(s)) : LeftOf(s)[i] \in UpperCase
        IN  result.value.v = IF swap THEN Swapped(s) ELSE s

\* C7 as amended: the parts are swapped exactly when there is one colon and
\* the left part has an uppercase letter, no lowercase letter and no digit;
\* other characters in the left part do not prevent the swap.
C7_SwapIffCasedUpperNoDigit ==
    NormalizeDone =>
        LET s == call.args.query.v
            swap == /\ Cardinality(Colons(s)) = 1
                    /\ \E i \in 1..Len(LeftOf(s)) : LeftOf(s)[i] \in UpperCase
                    /\ \A i \in 1..Len(LeftOf(s)) : LeftOf(s)[i] \notin LowerCase \cup Digits
        IN  result.value.v = IF swap THEN Swapped(s) ELSE s

\* a query whose left part is swapped although it holds a character that is
\* no letter
C7_Witness ==
    /\ NormalizeDone
    /\ call.args.query.v = <<"A", ".", ":">>
    /\ result.value.v = <<":", "A", ".">>

\* C8: normalizing a normalized query changes nothing.
C8_NormalizeIdempotent ==
    NormalizeDone => normalize_query(result.value.v) = result.value.v

\* the engine tag each handler fixes
EngineOf(tool) ==
    CASE tool = "google_flights" -> Lit("google_flights")
      [] tool = "get_market_data" -> Lit("google_finance_markets")
      [] tool = "debug_api_response" -> call.args.engine
      [] OTHER -> Lit("google_finance")

\* C9: with the credential configured and valid arguments, every handler
\* issues exactly one request, carrying its engine tag and the credential.
C9_OneRequestWithEngineAndCredential ==
    (HandlerDone /\ CredentialConfigured /\ ValidArguments) =>
        /\ GatewayCalls = 1
        /\ requests[1].engine = EngineOf(call.tool)
        /\ requests[1].api_key = environ["SERP_API_KEY"]

FlightRequest == call # Idle /\ call.tool = "google_flights" /\ GatewayCalls > 0
\* the tier of each travel class a caller may name
TierOf(tc) ==
    CASE tc = PyStr(<<"P","r","e","m","i","u","m","-","E","c","o","n","o","m","y">>) -> 2
      [] tc = PyStr(<<"b","u","s","i","n","e","s","s"," ","c","l","a","s","s">>) -> 3
      [] tc = PyStr(<<" ","F","i","r","s","t"," ">>) -> 4
      [] tc = PyStr(<<"F","I","R","S","T","_","C","L","A","S","S">>) -> 4
      [] tc = PyStr(<<"B","u","s","i","n","e","s","s","-","C","l","a","s","s">>) -> 3
      [] tc = PyStr(<<"L","u","x","u","r","y">>) -> 4
      [] tc = PyStr(<<"p","r","e","m","i","u","m">>) -> 2
      [] OTHER -> 1
\* the passenger count, 1 when absent or zero
CountOf(passengers) ==
    CASE passengers \in {PyNone, PyInt(0)} -> 1
      [] passengers = PyStr(<<"3">>) -> 3
      [] OTHER -> passengers.v
ReturnDateGiven == call.args.return_date \notin {PyNone, PyStr(<<>>)}

AliasFamilies ==
    [t \in 1..4 |->
        CASE t = 1 -> {<<"e","c","o","n","o","m","y">>, <<"e","c","o">>,
                       <<"c","o","a","c","h">>}
          [] t = 2 -> {<<"p","r","e","m","i","u","m">>,
                       <<"p","r","e","m","i","u","m","_","e","c","o","n","o","m","y">>}
          [] t = 3 -> {<<"b","u","s","i","n","e","s","s">>,
                       <<"b","u","s","i","n","e","s","s","_","c","l","a","s","s">>}
          [] OTHER -> {<<"f","i","r","s","t">>,
                       <<"f","i","r","s","t","_","c","l","a","s","s">>,
                       <<"l","u","x","u","r","y">>}]
Separators == {"-", "_", " "}
\* letter case ignored; hyphen, underscore and space read as one separator
Folded(s) ==
    [i \in 1..Len(s) |-> IF s[i] \in Separators THEN "_" ELSE char_lower(s[i])]
MatchesAlias(tc) == tc.t = "str" /\ \E t \in 1..4 : Folded(tc.v) \in AliasFamilies[t]
FamilyTier(tc) == CHOOSE t \in 1..4 : Folded(tc.v) \in AliasFamilies[t]
Contains(part, s) ==
    \E i \in 1..(Len(s) - Len(part) + 1) : SubSeq(s, i, i + Len(part) - 1) = part

\* the validation error of the travel class: no request was made and the
\* message quotes every alias
TravelClassError ==
    /\ HasKey("error")
    /\ GatewayCalls = 0
    /\ result.value.error.t = "str"
    /\ Head(result.value.error.v) = "Invalid travel_class '"
    /\ \A t \in 1..4 : \A alias \in AliasFamilies[t] :
           Contains(<<"'">> \o alias \o <<"'">>, result.value.error.v)
TravelClassGiven ==
    call # Idle /\ call.tool = "google_flights" /\ call.args.travel_class # PyNone

\* C11: a travel class that matches an alias, letter case ignored and hyphen,
\* underscore and space interchangeable, resolves to the tier of its family;
\* one that matches no alias yields the validation error listing the aliases;
\* and no tier outside 1..4 is put in the parameter map.
C11_TravelClassResolution ==
    /\ TravelClassGiven =>
           LET tc == call.args.travel_class
           IN  /\ MatchesAlias(tc) =>
                      /\ ~ TravelClassError
                      /\ FlightRequest =>
                             requests[1].travel_class = PyInt(FamilyTier(tc))
               /\ ~ MatchesAlias(tc) => TravelClassError
    /\ FlightRequest =>
           /\ requests[1].travel_class.t = "int"
           /\ requests[1].travel_class.v \in 1..4

====
